---- MODULE Spec2Model ----
(***************************************************************************)
(* The condition expression algebra of simulator/condition.py: interned    *)
(* leaf predicates (Status, Action), Indicator operands, the sentinels     *)
(* AnyTime / NoTime, the combinators All / Any / Not with their            *)
(* simplification in _Set.__new__, and evaluation on a table.              *)
(*                                                                         *)
(* Objects live in `heap` (an object is its index), the class-level        *)
(* `_collections` dictionaries live in `reg`.  A Python set is modelled by *)
(* its hash table (slots, dummies, resize), because the order in which a   *)
(* set is iterated is what tuple(set(args)) and str() observe.             *)
(***************************************************************************)
EXTENDS Integers, Sequences, FiniteSets, TLC

VARIABLES heap,   \* the objects allocated so far; an object reference is an index
          reg,    \* the _collections registries, one per owning class
          seed,   \* the per-process string-hash randomisation
          table,  \* the DataFrame handed to evaluations
          last,   \* the caller's last call: what was called, with what, and the outcome
          nops,   \* how many calls the caller has made
          frames  \* the calls in progress of concurrent callers, one frame each

vars == <<heap, reg, seed, table, last, nops, frames>>

----------------------------------------------------------------------------
(* Bounds of the model *)

MaxOps == 2         \* combinator calls per behaviour
MaxArgs == 3       \* members passed to one combinator call
MaxLeafOps == 2    \* leaf constructions per behaviour
MaxEvalLeaves == 1 \* constructions before the evaluations of a behaviour
MaxShift == 1      \* Indicator lags are 0..MaxShift
NRows == 2         \* rows of the table

HashSeeds == {0, 5}
ColumnNames == {"J"}
Levels == {0, 1}
CellValues == {-1, 0, 1, 2}   \* below, at, between and above the levels

----------------------------------------------------------------------------
(* Generic helpers *)

Range(s) == {s[i] : i \in 1..Len(s)}

SeqOfLen(S, n) == [1..n -> S]

SeqsUpTo(S, n) == UNION {SeqOfLen(S, k) : k \in 0..n}


\* the outcome of a call: the returned reference (0: none), the exception
\* raised ("" : none) and the program state after it
Result(r, e, s) == [ret |-> r, exc |-> e, st |-> s]

----------------------------------------------------------------------------
(* Classes *)

ConditionClasses == {"Status", "Action", "_AnyTime", "_NoTime"}
SetClasses == {"All", "Any", "Not", "Count"}
CountClasses == {"Count", "Indicator"}

IsCondition(st, id) == st.heap[id].cls \in ConditionClasses
IsNot(st, id) == st.heap[id].cls = "Not"
IsMember(st, id) == st.heap[id].cls \in ConditionClasses \cup {"All", "Any", "Not"}

\* The registry a class stores its instances in: Count defines no
\* _collections of its own and shares _Set's.
Registry(cls) == IF cls = "Count" THEN "_Set" ELSE cls

AnyTime == 1
NoTime == 2

----------------------------------------------------------------------------
(* Strings: str() / repr() of the objects, and the order of the strings    *)
(* that Condition.__gt__ compares                                          *)

ClassRank(c) ==
  CASE c = "Action" -> 1 [] c = "Status" -> 2 [] c = "_AnyTime" -> 3
    [] c = "_NoTime" -> 4 [] OTHER -> 0

NameRank(n) ==
  CASE n = "AnyTime" -> 1 [] n = "J" -> 2 [] n = "K" -> 3 [] n = "NoTime" -> 4
    [] OTHER -> 0

DirectionRank(d) ==
  CASE d = "" -> 0
    [] d = "!=" -> 1 [] d = "<" -> 2 [] d = "<=" -> 3 [] d = "==" -> 4
    [] d = ">" -> 5 [] d = ">=" -> 6
    [] d = "cross_down" -> 7 [] d = "cross_up" -> 8
    [] d = "touch_down" -> 9 [] d = "touch_up" -> 10
    [] OTHER -> 11

\* Indicator.ind_shf
IndShf(o) ==
  IF o.shift # 0 THEN o.indicator \o ".shift(" \o ToString(o.shift) \o ")"
  ELSE o.indicator

\* str.replace('_', ' ') on a direction
Unscore(d) ==
  CASE d = "cross_up" -> "cross up" [] d = "cross_down" -> "cross down"
    [] d = "touch_up" -> "touch up" [] d = "touch_down" -> "touch down"
    [] OTHER -> d

RECURSIVE JoinStr(_, _)
JoinStr(ss, sep) ==
  IF Len(ss) = 0 THEN ""
  ELSE IF Len(ss) = 1 THEN ss[1]
  ELSE ss[1] \o sep \o JoinStr(Tail(ss), sep)

RECURSIVE Str(_, _)
Str(st, id) ==
  LET o == st.heap[id] IN
  CASE o.cls = "Indicator" -> IndShf(o)
    [] o.cls \in {"_AnyTime", "_NoTime"} ->
         IF o.cls = "_AnyTime" THEN "AnyTime" ELSE "NoTime"
    [] o.cls \in {"Status", "Action"} ->
         o.cls \o "[ "
           \o (IF o.indicator[1] = "str" THEN o.indicator[2] ELSE Str(st, o.indicator[2]))
           \o " " \o Unscore(o.direction) \o " "
           \o (IF o.level[1] = "num" THEN ToString(o.level[2]) \o ".0" ELSE Str(st, o.level[2]))
           \o " ]"
    [] OTHER ->
         "\n" \o o.cls \o "("
           \o JoinStr([i \in 1..Len(o.set) |-> Str(st, o.set[i])], ",\n\t")
           \o ")\n"

----------------------------------------------------------------------------
(* Hashes.  Strings hash by a per-process seed; tuples combine the hashes  *)
(* of their items in order; hash(float(n)) is n for the small levels used. *)

StrHash(st, s) ==
  LET code == CASE s = "J" -> 1 [] s = "K" -> 2 [] s = "Status" -> 3
                [] s = "Action" -> 4 [] s = "All" -> 5 [] s = "Any" -> 6
                [] s = "Not" -> 7 [] s = "Count" -> 8 [] s = "_AnyTime" -> 9
                [] s = "_NoTime" -> 10 [] s = "AnyTime" -> 11 [] s = "NoTime" -> 12
                [] OTHER -> 13 + Len(s) * 3
  IN (code * 5 + st.seed) % 64

RECURSIVE TupleHash(_)
TupleHash(hs) ==
  IF Len(hs) = 0 THEN 17
  ELSE (TupleHash(SubSeq(hs, 1, Len(hs) - 1)) * 3 + hs[Len(hs)] + 1) % 64

RECURSIVE PyHash(_, _)
PyHash(st, id) ==
  LET o == st.heap[id] IN
  CASE o.cls = "Indicator" -> StrHash(st, IndShf(o))
    [] o.cls \in ConditionClasses ->
         TupleHash(<<StrHash(st, o.cls),
                     IF o.indicator[1] = "str" THEN StrHash(st, o.indicator[2])
                     ELSE PyHash(st, o.indicator[2]),
                     StrHash(st, o.direction),
                     IF o.level[1] = "num" THEN o.level[2]
                     ELSE IF o.level[1] = "str" THEN StrHash(st, o.level[2])
                     ELSE PyHash(st, o.level[2])>>)
    [] OTHER ->
         IF o.hash[2] = "t"
         THEN TupleHash(<<StrHash(st, o.hash[1])>>
                          \o [i \in 1..Len(o.hash[3]) |-> PyHash(st, o.hash[3][i])])
         ELSE LET a == CHOOSE x \in o.hash[3] : TRUE
                  b == IF o.hash[3] = {a} THEN a ELSE CHOOSE x \in o.hash[3] \ {a} : TRUE
              IN (StrHash(st, a) + StrHash(st, b) + StrHash(st, o.hash[1])) % 64

----------------------------------------------------------------------------
(* Python's set: an open-addressing hash table.  `t` holds a reference, 0  *)
(* for a free slot, -1 for a dummy left by a removal.  Iteration walks the *)
(* slots in index order.                                                   *)

EmptySet == [mask |-> 7, t |-> [i \in 1..8 |-> 0], fill |-> 0, used |-> 0]

SetIter(T) == SelectSeq(T.t, LAMBDA x : x > 0)

SetHas(T, e) == \E i \in 1..Len(T.t) : T.t[i] = e

SetLen(T) == T.used

\* the free slot the probe sequence of hash h reaches first
RECURSIVE FreeSlot(_, _, _)
FreeSlot(T, i, perturb) ==
  LET probes == IF i + 9 <= T.mask THEN 9 ELSE 0
      free == {j \in i..(i + probes) : T.t[j + 1] = 0}
  IN IF free # {} THEN CHOOSE j \in free : \A k \in free : j <= k
     ELSE FreeSlot(T, (i * 5 + 1 + (perturb \div 32)) % (T.mask + 1), perturb \div 32)

SetInsertAt(T, e, j) == [T EXCEPT !.t[j + 1] = e, !.fill = @ + 1, !.used = @ + 1]

SetInsertHashed(T, e, h) == SetInsertAt(T, e, FreeSlot(T, h % (T.mask + 1), h))

SetInsertClean(st, T, e) == SetInsertHashed(T, e, PyHash(st, e))

RECURSIVE SetInsertAll(_, _, _)
SetInsertAll(st, T, es) ==
  IF Len(es) = 0 THEN T
  ELSE SetInsertAll(st, SetInsertClean(st, T, Head(es)), Tail(es))

RECURSIVE TableSize(_, _)
TableSize(n, minused) == IF n <= minused THEN TableSize(2 * n, minused) ELSE n

SetOfSize(n) == [mask |-> n - 1, t |-> [i \in 1..n |-> 0], fill |-> 0, used |-> 0]

SetResize(st, T) == SetInsertAll(st, SetOfSize(TableSize(8, T.used * 4)), SetIter(T))

SetGrown(st, T) == IF T.fill * 5 >= T.mask * 3 THEN SetResize(st, T) ELSE T

SetAdd(st, T, e) == IF SetHas(T, e) THEN T ELSE SetGrown(st, SetInsertClean(st, T, e))

\* set.update(iterable) / set(iterable)
RECURSIVE SetUpdate(_, _, _)
SetUpdate(st, T, es) ==
  IF Len(es) = 0 THEN T
  ELSE SetUpdate(st, SetAdd(st, T, Head(es)), Tail(es))

SetOf(st, es) == SetUpdate(st, EmptySet, es)

\* set.difference_update(other): removals leave dummies; many dummies
\* trigger a rebuild
SetShrunk(st, T) == IF (T.fill - T.used) * 5 > T.mask THEN SetResize(st, T) ELSE T

SetDiscard(T, gone) ==
  [T EXCEPT !.t = [i \in 1..Len(T.t) |-> IF i \in gone THEN -1 ELSE T.t[i]],
            !.used = @ - Cardinality(gone)]

SetDifferenceUpdate(st, T, other) ==
  SetShrunk(st, SetDiscard(T, {i \in 1..Len(T.t) : T.t[i] > 0 /\ T.t[i] \in other}))

\* tuple(set(args)): the distinct items in iteration order
TupleOfSet(st, args) == SetIter(SetOf(st, args))

----------------------------------------------------------------------------
(* Registries *)

\* a registry that never finds a key
InRegistryNever(d, key) == FALSE

InRegistry(d, key) == key \in DOMAIN d

\* cls._collections[key] = self
Store(d, key, id) == (key :> id) @@ d

----------------------------------------------------------------------------
(* Indicator and the leaf predicates *)

\* Indicator.__new__(cls, name, shift=s); the inherited __init__ finds no
\* _init on the instance and does nothing
IndicatorCall(st, name, shift) ==
  LET key == <<name, shift>> IN
  IF InRegistry(st.reg.Indicator, key)
  THEN Result(st.reg.Indicator[key], "", st)
  ELSE LET id == Len(st.heap) + 1
       IN Result(id, "",
                 [st EXCEPT !.heap = Append(@, [cls |-> "Indicator",
                                                indicator |-> name,
                                                shift |-> shift]),
                            !.reg.Indicator = Store(@, key, id)])

\* Condition.__new__(cls, indicator, direction, level).  A level is given
\* as <<"num", n>>, <<"str", column>>, <<"obj", reference>> or <<"none", 0>>
\* (a value float() rejects).
ConditionStore(st, cls, indicator, direction, lev, hash_) ==
  IF InRegistry(st.reg.Condition, hash_)
  THEN Result(st.reg.Condition[hash_], "", st)
  ELSE Result(Len(st.heap) + 1, "",
              [st EXCEPT !.heap = Append(@, [cls |-> cls,
                                             indicator |-> indicator,
                                             direction |-> direction,
                                             level |-> lev,
                                             ops |-> <<>>]),
                         !.reg.Condition = Store(@, hash_, Len(st.heap) + 1)])

\* isinstance(level, str): Indicator(level); a Count or an Interval is kept;
\* anything else goes through float()
LevelOf(st, level) ==
  CASE level[1] = "str" -> IndicatorCall(st, level[2], 0)
    [] level[1] = "obj" ->
         IF st.heap[level[2]].cls \in CountClasses
         THEN Result(level[2], "", st)
         ELSE Result(0, "TypeError", st)
    [] level[1] = "num" -> Result(0, "", st)
    [] OTHER -> Result(0, "TypeError", st)

ConditionKeyed(lv, cls, indicator, direction, lev) ==
  IF lv.exc # "" THEN lv
  ELSE ConditionStore(lv.st, cls, indicator, direction, lev,
                      <<cls, indicator, direction, lev>>)

ConditionLevelled(lv, cls, indicator, direction, level) ==
  ConditionKeyed(lv, cls, indicator, direction,
                 IF level[1] = "num" THEN level ELSE <<"obj", lv.ret>>)

ConditionNew(st, cls, indicator, direction, level) ==
  ConditionLevelled(LevelOf(st, level), cls, indicator, direction, level)

\* Status.__init__: dir_repr_map
DirRepr(direction) ==
  CASE direction = "lt" -> "<" [] direction = "le" -> "<="
    [] direction = "gt" -> ">" [] direction = "ge" -> ">="
    [] direction = "eq" -> "==" [] direction = "ne" -> "!="
    [] OTHER -> ""

\* the direction table with the rising pairs exchanged
DirMapExchanged(direction) ==
  CASE direction = "cross_up" -> <<"lt", "ge">>
    [] direction = "touch_up" -> <<"le", "gt">>
    [] direction = "cross_down" -> <<"ge", "lt">>
    [] direction = "touch_down" -> <<"gt", "le">>
    [] OTHER -> <<>>

\* Action.__init__: dir_map, as <<pre_op, tar_op>>
DirMap(direction) ==
  CASE direction = "cross_up" -> <<"le", "gt">>
    [] direction = "touch_up" -> <<"lt", "ge">>
    [] direction = "cross_down" -> <<"ge", "lt">>
    [] direction = "touch_down" -> <<"gt", "le">>
    [] OTHER -> <<>>

StatusInit(st, id, direction) ==
  IF DirRepr(direction) = "" THEN Result(0, "KeyError", st)
  ELSE Result(id, "", [st EXCEPT !.heap[id].direction = DirRepr(direction),
                                 !.heap[id].ops = <<direction>>])

ActionInit(st, id, direction) ==
  IF DirMap(direction) = <<>> THEN Result(0, "KeyError", st)
  ELSE Result(id, "", [st EXCEPT !.heap[id].ops = DirMap(direction)])

\* Status(indicator, direction, level) / Action(indicator, direction, level):
\* __new__, then __init__ on what it returned
LeafInit(new, cls, direction) ==
  IF new.exc # "" THEN new
  ELSE IF cls = "Status" THEN StatusInit(new.st, new.ret, direction)
  ELSE ActionInit(new.st, new.ret, direction)

LeafCall(st, cls, indicator, direction, level) ==
  LeafInit(ConditionNew(st, cls, indicator, direction, level), cls, direction)

----------------------------------------------------------------------------
(* Ordering: Condition.__gt__, what functools.total_ordering derives from  *)
(* it, and the comparisons `<` and `>` as sorted(), min() and max() make   *)
(* them.  A comparison yields "T" or "F" (the truth value of what it       *)
(* returned) or the name of the exception raised, and the state after it.  *)

Cmp(v, st) == [v |-> v, st |-> st]

Truth(b) == IF b THEN "T" ELSE "F"

IsTruth(v) == v \in {"T", "F"}

\* self._level > value._level
StatusBuilt(r) == Cmp(IF r.exc = "" THEN "T" ELSE r.exc, r.st)

LevelGt(st, lx, ly) ==
  IF lx[1] = "num" /\ ly[1] = "num" THEN Cmp(Truth(lx[2] > ly[2]), st)
  ELSE IF lx[1] = "num" /\ ly[1] = "obj"
       \* float defers to the reflected Count.__lt__, which builds a Status
       THEN StatusBuilt(LeafCall(st, "Status", ly, "lt", lx))
  ELSE IF lx[1] = "obj"
       \* Count.__gt__ builds a Status
       THEN StatusBuilt(LeafCall(st, "Status", lx, "gt", ly))
  ELSE Cmp("TypeError", st)

\* the name Condition.__gt__ reads off an _indicator; "" when it is neither
\* an Indicator nor a str
OperandName(st, ind) ==
  IF ind[1] = "str" THEN ind[2]
  ELSE IF st.heap[ind[2]].cls = "Indicator"
       THEN st.heap[ind[2]].indicator
  ELSE ""

\* the comparison of two Conditions of one class, a and b, whose operands
\* are named s and v
CondGtNamed(st, a, b, s, v) ==
  IF s = "" \/ v = "" THEN Cmp("TypeError", st)
  ELSE IF s # v THEN Cmp(Truth(NameRank(s) > NameRank(v)), st)
  ELSE IF a.direction # b.direction
       THEN Cmp(Truth(DirectionRank(a.direction) > DirectionRank(b.direction)), st)
  ELSE IF a.level[1] = "str" THEN Cmp("F", st)
  ELSE LevelGt(st, a.level, b.level)

CondGtValue(st, a, value) ==
  IF ~IsCondition(st, value) THEN Cmp("NI", st)
  ELSE IF a.cls # st.heap[value].cls
       THEN Cmp(Truth(ClassRank(a.cls) > ClassRank(st.heap[value].cls)), st)
  ELSE CondGtNamed(st, a, st.heap[value], OperandName(st, a.indicator),
                   OperandName(st, st.heap[value].indicator))

\* Condition.__gt__(self, value): a Not is replaced by the member it pops
\* from a copy of its set
CondGt(st, self, value0) ==
  IF IsNot(st, value0) /\ Len(st.heap[value0].set) = 0 THEN Cmp("KeyError", st)
  ELSE CondGtValue(st, st.heap[self],
                   IF IsNot(st, value0) THEN st.heap[value0].set[1] ELSE value0)

\* what `>` makes of the outcome of __gt__
Gt(r) == IF r.v = "NI" THEN Cmp("TypeError", r.st) ELSE r

\* functools.total_ordering's __lt__ from __gt__: not (x > y) and x != y
Lt(r, differ) ==
  IF r.v = "NI" THEN Cmp("TypeError", r.st)
  ELSE IF ~IsTruth(r.v) THEN r
  ELSE Cmp(Truth(r.v = "F" /\ differ), r.st)

\* x < y
PyLt(st, x, y) ==
  IF IsCondition(st, x) THEN Lt(CondGt(st, x, y), x # y)
  ELSE \* a _Set has no __lt__: Python tries the reflected y > x
       IF IsCondition(st, y) THEN Gt(CondGt(st, y, x))
       ELSE Cmp("TypeError", st)

\* x > y
PyGt(st, x, y) ==
  IF IsCondition(st, x) THEN Gt(CondGt(st, x, y))
  ELSE \* reflected y < x
       IF IsCondition(st, y) THEN Lt(CondGt(st, y, x), x # y)
       ELSE Cmp("TypeError", st)

----------------------------------------------------------------------------
(* sorted(): list.sort on a short list is count_run followed by a binary   *)
(* insertion sort; the comparisons made, and so the exceptions met, are    *)
(* those of that algorithm.                                                *)

Sorting(a, exc, st) == [seq |-> a, exc |-> exc, st |-> st]

Reverse(a) == [i \in 1..Len(a) |-> a[Len(a) + 1 - i]]

\* count_run: how far the run starting at a[1] extends
RECURSIVE CountRun(_, _, _, _)

CountRunNext(c, a, i, descending) ==
  IF ~IsTruth(c.v) THEN [n |-> 0, exc |-> c.v, st |-> c.st]
  ELSE IF (c.v = "T") = descending THEN CountRun(c.st, a, i + 1, descending)
  ELSE [n |-> i - 1, exc |-> "", st |-> c.st]

CountRun(st, a, i, descending) ==
  IF i > Len(a) THEN [n |-> Len(a), exc |-> "", st |-> st]
  ELSE CountRunNext(PyLt(st, a[i], a[i - 1]), a, i, descending)

\* binarysort's search for the place of pivot in a[l+1 .. r]
RECURSIVE BinarySearch(_, _, _, _, _)

BinarySearchNext(c, a, pivot, l, p, r) ==
  IF ~IsTruth(c.v) THEN [pos |-> 0, exc |-> c.v, st |-> c.st]
  ELSE IF c.v = "T" THEN BinarySearch(c.st, a, pivot, l, p)
  ELSE BinarySearch(c.st, a, pivot, p + 1, r)

BinarySearchAt(st, a, pivot, l, p, r) ==
  BinarySearchNext(PyLt(st, pivot, a[p + 1]), a, pivot, l, p, r)

BinarySearch(st, a, pivot, l, r) ==
  IF l >= r THEN [pos |-> l, exc |-> "", st |-> st]
  ELSE BinarySearchAt(st, a, pivot, l, l + ((r - l) \div 2), r)

RECURSIVE BinarySort(_, _, _)

\* a with a[start+1] moved to position pos+1
Inserted(a, pos, start) ==
  SubSeq(a, 1, pos) \o <<a[start + 1]>> \o SubSeq(a, pos + 1, start)
    \o SubSeq(a, start + 2, Len(a))

BinarySortNext(f, a, start) ==
  IF f.exc # "" THEN Sorting(a, f.exc, f.st)
  ELSE BinarySort(f.st, Inserted(a, f.pos, start), start + 1)

BinarySort(st, a, start) ==
  IF start >= Len(a) THEN Sorting(a, "", st)
  ELSE BinarySortNext(BinarySearch(st, a, a[start + 1], 0, start), a, start)

SortedRun(run, a, descending) ==
  IF run.exc # "" THEN Sorting(a, run.exc, run.st)
  ELSE BinarySort(run.st,
                  IF descending
                  THEN Reverse(SubSeq(a, 1, run.n)) \o SubSeq(a, run.n + 1, Len(a))
                  ELSE a,
                  run.n)

SortedFirst(first, a) ==
  IF ~IsTruth(first.v) THEN Sorting(a, first.v, first.st)
  ELSE SortedRun(CountRun(first.st, a, 3, first.v = "T"), a, first.v = "T")

Sorted(st, a) ==
  IF Len(a) < 2 THEN Sorting(a, "", st)
  ELSE SortedFirst(PyLt(st, a[2], a[1]), a)

----------------------------------------------------------------------------
(* The combinators: _Set.__new__ and _Set.__init__                         *)

\* bool(x): the sentinels define __bool__ as False, a _Set is as true as
\* its __len__, any other Condition is true
Truthy(st, id) ==
  LET o == st.heap[id] IN
  CASE o.cls \in {"_AnyTime", "_NoTime"} -> FALSE
    [] o.cls \in SetClasses -> Len(o.set) > 0
    [] OTHER -> TRUE

\* _Set.pop: self._set.pop()
SetPop(st, id) ==
  IF Len(st.heap[id].set) = 0 THEN Result(0, "KeyError", st)
  ELSE Result(Head(st.heap[id].set), "", [st EXCEPT !.heap[id].set = Tail(@)])

\* _get_all_ins(iterable, cls)
GetAllIns(st, items, classes) ==
  [instance |-> SelectSeq(items, LAMBDA x : st.heap[x].cls \in classes),
   others |-> SelectSeq(items, LAMBDA x : st.heap[x].cls \notin classes)]

\* _unique(iterable): one set updated with every instance's members
RECURSIVE Unique(_, _, _)
Unique(st, T, instances) ==
  IF Len(instances) = 0 THEN T
  ELSE Unique(st, SetUpdate(st, T, st.heap[Head(instances)].set), Tail(instances))

\* the loop over not_ins: "hit" when a negated member is itself among
\* con_ins, "KeyError" when a Not has lost its member, "" otherwise
RECURSIVE Contradiction(_, _, _, _)
Contradiction(st, cls, not_ins, con_ins) ==
  IF Len(not_ins) = 0 THEN ""
  ELSE LET n == st.heap[Head(not_ins)] IN
       IF Len(n.set) = 0 THEN "KeyError"
       ELSE IF n.set[1] \in Range(con_ins) /\ cls \in {"Any", "All"} THEN "hit"
       ELSE Contradiction(st, cls, Tail(not_ins), con_ins)

\* the tail of __new__: look the key up, allocate and store when absent
Register(st, cls, key, args) ==
  IF InRegistry(st.reg[Registry(cls)], key)
  THEN Result(st.reg[Registry(cls)][key], "", st)
  ELSE Result(Len(st.heap) + 1, "",
              [st EXCEPT !.heap = Append(@, [cls |-> cls, hash |-> key,
                                             hasinit |-> TRUE, init |-> args,
                                             set |-> <<>>]),
                         !.reg[Registry(cls)] = Store(@, key, Len(st.heap) + 1)])

\* _Set.__init__
SetInit(st, id) ==
  IF st.heap[id].hasinit
  THEN [st EXCEPT !.heap[id].set = TupleOfSet(st, st.heap[id].init),
                  !.heap[id].hasinit = FALSE,
                  !.heap[id].init = <<>>]
  ELSE st

\* the branch for Conditions and Nots only
FlatSorted(sorted, cls, args) ==
  IF sorted.exc # "" THEN Result(0, sorted.exc, sorted.st)
  ELSE Register(sorted.st, cls, <<cls, "t", sorted.seq>>, args)

FlatChecked(st, cls, args, found) ==
  IF found = "KeyError" THEN Result(0, "KeyError", st)
  ELSE IF found = "hit"
       THEN Result(IF cls = "Any" THEN AnyTime ELSE NoTime, "", st)
  ELSE FlatSorted(Sorted(st, args), cls, args)

FlatSplit(st, cls, args, split) ==
  FlatChecked(st, cls, args, Contradiction(st, cls, split.instance, split.others))

FlatKey(st, cls, args) == FlatSplit(st, cls, args, GetAllIns(st, args, {"Not"}))

\* and_set and or_set after Conditions are combined into the branch being
\* built, shared members are removed from the other and a single survivor
\* is folded in
\* own: the set of the class being built, other: the other one
SimplifyFolded(st, own, other) ==
  IF SetLen(other) = 1
  THEN [own |-> SetAdd(st, own, SetIter(other)[1]), other |-> EmptySet]
  ELSE [own |-> own, other |-> other]

SimplifyCombined(st, own, other) ==
  SimplifyFolded(st, own, SetDifferenceUpdate(st, other, Range(SetIter(own))))

AsAll(s) == [and_set |-> s.own, or_set |-> s.other]

AsAny(s) == [and_set |-> s.other, or_set |-> s.own]

Simplify(st, cls, and_set, or_set, con_ins) ==
  IF cls = "All"
  THEN AsAll(SimplifyCombined(st, SetUpdate(st, and_set, con_ins), or_set))
  ELSE IF cls = "Any"
  THEN AsAny(SimplifyCombined(st, SetUpdate(st, or_set, con_ins), and_set))
  ELSE [and_set |-> and_set, or_set |-> or_set]

\* the key of a set whose simplified args are (an All result, an Any result)
NestedKeyMax(gt, cls, least, a, o) ==
  IF ~IsTruth(gt.v) THEN [key |-> <<>>, exc |-> gt.v, st |-> gt.st]
  ELSE [key |-> <<cls, "t", <<least, IF gt.v = "T" THEN o ELSE a>>>>,
        exc |-> "", st |-> gt.st]

NestedKeyMin(lt, cls, a, o) ==
  IF ~IsTruth(lt.v) THEN [key |-> <<>>, exc |-> lt.v, st |-> lt.st]
  ELSE NestedKeyMax(PyGt(lt.st, o, a), cls, IF lt.v = "T" THEN o ELSE a, a, o)

NestedKey(st, cls, a, o) ==
  IF IsCondition(st, a) /\ IsCondition(st, o)
  THEN \* (cls.__name__, min(args), max(args))
       NestedKeyMin(PyLt(st, o, a), cls, a, o)
  ELSE \* f'{cls.__name__} {"; ".join(sorted(map(str, args)))}'
       [key |-> <<cls, "s", {Str(st, a), Str(st, o)}>>, exc |-> "", st |-> st]

RECURSIVE SetCall(_, _, _), SetNew(_, _, _), NestedNew(_, _, _)

NestedKeyed(k, cls, a, o) ==
  IF k.exc # "" THEN Result(0, k.exc, k.st)
  ELSE Register(k.st, cls, k.key, <<a, o>>)

\* args = (All of and_set, Any of or_set); an absent one yields the other
NestedBoth(o, cls, a) ==
  IF o.exc # "" THEN o
  ELSE IF ~Truthy(o.st, a) THEN Result(o.ret, "", o.st)
  ELSE IF ~Truthy(o.st, o.ret) THEN Result(a, "", o.st)
  ELSE IF IsCondition(o.st, a) /\ IsCondition(o.st, o.ret) /\ a = o.ret
       THEN Result(a, "", o.st)
  ELSE NestedKeyed(NestedKey(o.st, cls, a, o.ret), cls, a, o.ret)

NestedAnd(a, cls, or_set) ==
  IF a.exc # "" THEN a
  ELSE NestedBoth(SetCall(a.st, "Any", SetIter(or_set)), cls, a.ret)

NestedSimplified(st, cls, s) ==
  NestedAnd(SetCall(st, "All", SetIter(s.and_set)), cls, s.or_set)

NestedKinds(st, cls, kinds, others) ==
  NestedSimplified(st, cls, Simplify(st, cls, Unique(st, EmptySet, kinds.instance),
                                     Unique(st, EmptySet, kinds.others), others))

NestedSets(st, cls, sets) ==
  NestedKinds(st, cls, GetAllIns(st, sets.instance, {"All"}), sets.others)

\* the branch taken when a combinator is among the members
NestedNew(st, cls, args) == NestedSets(st, cls, GetAllIns(st, args, {"All", "Any"}))

\* args = tuple(set(args)) and what follows it
SetDistinct(st, cls, args) ==
  IF Len(args) = 1 /\ IsCondition(st, args[1]) /\ cls \notin {"Not", "Count"}
  THEN Result(args[1], "", st)
  ELSE IF \A i \in 1..Len(args) : IsCondition(st, args[i]) \/ IsNot(st, args[i])
  THEN FlatKey(st, cls, args)
  ELSE NestedNew(st, cls, args)

\* _Set.__new__(cls, *args)
SetNew(st, cls, args) ==
  IF Len(args) = 0
  THEN IF cls = "All" THEN Result(AnyTime, "", st)
       ELSE IF cls = "Any" THEN Result(NoTime, "", st)
       ELSE Result(0, "ValueError", st)
  ELSE IF \E i \in 1..Len(args) : ~IsMember(st, args[i])
  THEN Result(0, "TypeError", st)
  ELSE IF Len(args) = 1 /\ IsNot(st, args[1])
  THEN IF cls = "Not" THEN SetPop(st, args[1]) ELSE Result(args[1], "", st)
  ELSE IF Len(args) = 1 /\ cls \notin {"Not", "Count"}
  THEN Result(args[1], "", st)
  ELSE IF Len(args) > 1 /\ cls = "Not"
  THEN Result(0, "ValueError", st)
  ELSE SetDistinct(st, cls, TupleOfSet(st, args))

\* __init__ runs when __new__ returned an instance of the class called
SetInitOf(new, cls) ==
  IF new.exc # "" THEN new
  ELSE IF new.st.heap[new.ret].cls = cls
       THEN Result(new.ret, "", SetInit(new.st, new.ret))
  ELSE new

\* a call of All, Any or Not: __new__, then __init__
SetCall(st, cls, args) == SetInitOf(SetNew(st, cls, args), cls)

----------------------------------------------------------------------------
(* Evaluation on a DataFrame.  A numeric Series is a sequence of cells, a  *)
(* cell being a number or the missing value that shift() introduces; a     *)
(* boolean Series is a sequence of booleans.                               *)

Cell(n) == [na |-> FALSE, v |-> n]
Missing == [na |-> TRUE, v |-> 0]

Ev(val, exc) == [val |-> val, exc |-> exc]

Rows(tbl) == IF DOMAIN tbl = {} THEN 0 ELSE Len(tbl[CHOOSE c \in DOMAIN tbl : TRUE])

\* df[name]
Column(tbl, name) ==
  IF name \in DOMAIN tbl
  THEN Ev([i \in 1..Len(tbl[name]) |-> Cell(tbl[name][i])], "")
  ELSE Ev(<<>>, "KeyError")

\* Series.shift(n)
Shift(series, n) ==
  [i \in 1..Len(series) |-> IF i <= n THEN Missing ELSE series[i - n]]

\* one comparison of the Series methods __lt__ ... __ne__: a missing value
\* compares false, except under !=
CompareCells(op, a, b) ==
  IF a.na \/ b.na THEN op = "ne"
  ELSE CASE op = "lt" -> a.v < b.v [] op = "le" -> a.v <= b.v
         [] op = "gt" -> a.v > b.v [] op = "ge" -> a.v >= b.v
         [] op = "eq" -> a.v = b.v [] OTHER -> a.v # b.v

CompareSeries(op, a, b) == [i \in 1..Len(a) |-> CompareCells(op, a[i], b[i])]

RECURSIVE Eval(_, _, _)

\* what a leaf compares: a column named by a str, or a Count piped the frame
Operand(st, tbl, ref) ==
  IF ref[1] = "str" THEN Column(tbl, ref[2])
  ELSE IF ref[1] = "num" THEN Ev([i \in 1..Rows(tbl) |-> Cell(ref[2])], "")
  ELSE IF st.heap[ref[2]].cls \in CountClasses THEN Eval(st, tbl, ref[2])
  ELSE Ev(<<>>, "AttributeError")

\* the comparison made against the level of the row before
StatusLevelPrevious(o, target, level) ==
  IF level.exc # "" THEN level
  ELSE Ev(CompareSeries(o.ops[1], target.val, Shift(level.val, 1)), "")

StatusLevel(o, target, level) ==
  IF level.exc # "" THEN level
  ELSE Ev(CompareSeries(o.ops[1], target.val, level.val), "")

StatusTarget(st, tbl, o, target) ==
  IF target.exc # "" THEN target
  ELSE StatusLevel(o, target, Operand(st, tbl, o.level))

\* Status.__call__
StatusEval(st, tbl, o) == StatusTarget(st, tbl, o, Operand(st, tbl, o.indicator))

\* tar_meth(tar_level) & pre_meth(pre_level)
ActionBoth(tar, prev) == Ev([i \in 1..Len(tar) |-> tar[i] /\ prev[i]], "")

ActionLevel(o, target, tar_level) ==
  IF tar_level.exc # "" THEN tar_level
  ELSE ActionBoth(CompareSeries(o.ops[2], target.val, tar_level.val),
                  CompareSeries(o.ops[1], Shift(target.val, 1),
                                IF o.level[1] = "num" THEN tar_level.val
                                ELSE Shift(tar_level.val, 1)))

ActionTarget(st, tbl, o, target) ==
  IF target.exc # "" THEN target
  ELSE ActionLevel(o, target, Operand(st, tbl, o.level))

\* Action.__call__
ActionEval(st, tbl, o) == ActionTarget(st, tbl, o, Operand(st, tbl, o.indicator))

\* the members' Series, in iteration order; the first failure wins
RECURSIVE EvalAll(_, _, _)

EvalRest(h, t) == IF t.exc # "" THEN t ELSE Ev(<<h.val>> \o t.val, "")

EvalFirst(st, tbl, ids, h) ==
  IF h.exc # "" THEN h ELSE EvalRest(h, EvalAll(st, tbl, Tail(ids)))

EvalAll(st, tbl, ids) ==
  IF Len(ids) = 0 THEN Ev(<<>>, "")
  ELSE EvalFirst(st, tbl, ids, Eval(st, tbl, Head(ids)))

\* _Set.__call__: reduce(func, iter(self))(df) for two members or more,
\* func(self)(df) otherwise, func being Series.__and__ / __or__ / __invert__
Reduced(o, tbl, m) ==
  IF m.exc # "" THEN m
  ELSE IF o.cls = "Not" THEN Ev(<<>>, "TypeError")
  ELSE Ev([i \in 1..Rows(tbl) |->
             IF o.cls = "All" THEN \A k \in 1..Len(m.val) : m.val[k][i]
             ELSE \E k \in 1..Len(m.val) : m.val[k][i]], "")

\* func(self)(df)
Single(o, m) ==
  IF m.exc # "" THEN m
  ELSE IF o.cls = "Not" THEN Ev([i \in 1..Len(m.val) |-> ~m.val[i]], "")
  ELSE Ev(<<>>, "TypeError")

CombinatorEval(st, tbl, o) ==
  IF Len(o.set) > 1 THEN Reduced(o, tbl, EvalAll(st, tbl, o.set))
  ELSE IF Len(o.set) = 0 THEN Ev(<<>>, "KeyError")
  ELSE Single(o, Eval(st, tbl, o.set[1]))

\* Count.__call__: reduce(func, self)(df) for two members or more, func
\* being Series.add on the members' values made int
Counted(tbl, m) ==
  IF m.exc # "" THEN m
  ELSE Ev([i \in 1..Rows(tbl) |->
             Cardinality({k \in 1..Len(m.val) : m.val[k][i]})], "")

\* Series.add with one argument
CountUnary(m) == IF m.exc # "" THEN m ELSE Ev(<<>>, "TypeError")

\* func(self.copy().pop())(df): the conductor's unary closure calls
\* copy() on the member it was handed
CountSingle(st, tbl, member) ==
  IF st.heap[member].cls \notin {"All", "Any", "Not", "Count"}
  THEN Ev(<<>>, "AttributeError")
  ELSE IF Len(st.heap[member].set) = 0 THEN Ev(<<>>, "KeyError")
  ELSE CountUnary(Eval(st, tbl, st.heap[member].set[1]))

CountEval(st, tbl, o) ==
  IF Len(o.set) > 1 THEN Counted(tbl, EvalAll(st, tbl, o.set))
  ELSE IF Len(o.set) = 0 THEN Ev(<<>>, "KeyError")
  ELSE CountSingle(st, tbl, o.set[1])

\* Series.add / Series.sub, cell by cell; a missing value stays missing
Arith(op, a, b) ==
  IF a.na \/ b.na THEN Missing
  ELSE Cell(IF op = "add" THEN a.v + b.v ELSE a.v - b.v)

AddSubSeries(o, x, y) ==
  IF y.exc # "" THEN y
  ELSE Ev([i \in 1..Len(x.val) |-> Arith(o.operator, x.val[i], y.val[i])], "")

AddSubOther(st, tbl, o, x) ==
  IF x.exc # "" THEN x
  ELSE IF o.type = "I" THEN AddSubSeries(o, x, Eval(st, tbl, o.other[2]))
  ELSE IF o.other[1] = "num"
       THEN Ev([i \in 1..Len(x.val) |-> Arith(o.operator, x.val[i], Cell(o.other[2]))], "")
  ELSE Ev(<<>>, "TypeError")

\* the calls that evaluating o makes nest no deeper than fuel: a node that
\* is its own operand, directly or through others, never returns
RECURSIVE Returns(_, _, _)
Returns(st, o, fuel) ==
  IF o.cls # "IndicatorAddSub" \/ o.type = "" THEN TRUE
  ELSE IF fuel = 0 THEN FALSE
  ELSE /\ Returns(st, st.heap[o.self_], fuel - 1)
       /\ o.type = "I" => Returns(st, st.heap[o.other[2]], fuel - 1)

\* IndicatorAddSub.__call__; an instance whose __init__ failed has no _type
AddSubEval(st, tbl, o) ==
  IF o.type = "" THEN Ev(<<>>, "AttributeError")
  ELSE IF ~Returns(st, o, Len(st.heap)) THEN Ev(<<>>, "RecursionError")
  ELSE AddSubOther(st, tbl, o, Eval(st, tbl, o.self_))

\* Indicator.__call__: df[name].shift(n)
Shifted(c, n) == IF c.exc # "" THEN c ELSE Ev(Shift(c.val, n), "")

EvalObject(st, tbl, o) ==
  CASE o.cls = "Indicator" -> Shifted(Column(tbl, o.indicator), o.shift)
    [] o.cls = "Status" -> StatusEval(st, tbl, o)
    [] o.cls = "Action" -> ActionEval(st, tbl, o)
    [] o.cls = "_AnyTime" -> Ev([i \in 1..Rows(tbl) |-> TRUE], "")
    [] o.cls = "_NoTime" -> Ev([i \in 1..Rows(tbl) |-> FALSE], "")
    [] o.cls \in {"All", "Any", "Not"} -> CombinatorEval(st, tbl, o)
    [] o.cls = "Count" -> CountEval(st, tbl, o)
    [] OTHER -> AddSubEval(st, tbl, o)

Eval(st, tbl, id) == EvalObject(st, tbl, st.heap[id])

----------------------------------------------------------------------------
(* What an evaluation does to the objects.  The only statements of the     *)
(* evaluation code that write are copy() and pop(): the unary closure of   *)
(* _operators_conductor and Count.__call__ read the single member of a set *)
(* with self.copy().pop().  A copy is an object of its own, here an entry  *)
(* appended to the heap, which dies when the call returns.                 *)

\* a copy() that hands out the set of the instance itself
SetCopyShared(st, id) == Result(id, "", st)

\* _Set.copy: self._set.copy()
SetCopy(st, id) ==
  Result(Len(st.heap) + 1, "",
         [st EXCEPT !.heap = Append(@, [cls |-> "set", set |-> st.heap[id].set])])

Popped(c) == SetPop(c.st, c.ret)

\* self.copy().pop()
CopyPop(st, id) == Popped(SetCopy(st, id))

RECURSIVE Effect(_, _, _)
RECURSIVE EffectAll(_, _, _)

\* df.pipe(self._indicator) / df.pipe(self._level) when it is a Count
EffectOperand(st, tbl, ref) ==
  IF ref[1] = "obj" /\ st.heap[ref[2]].cls \in CountClasses
  THEN Effect(st, tbl, ref[2])
  ELSE st

\* Status.__call__ / Action.__call__: the target, then the level
EffectLeaf(st, tbl, o) ==
  IF Operand(st, tbl, o.indicator).exc # ""
  THEN EffectOperand(st, tbl, o.indicator)
  ELSE EffectOperand(EffectOperand(st, tbl, o.indicator), tbl, o.level)

\* the closures reduce() has nested call the members in iteration order,
\* up to the first that raises
EffectAll(st, tbl, ids) ==
  IF Len(ids) = 0 THEN st
  ELSE IF Eval(st, tbl, Head(ids)).exc # "" THEN Effect(st, tbl, Head(ids))
  ELSE EffectAll(Effect(st, tbl, Head(ids)), tbl, Tail(ids))

\* df.pipe(member) of the member popped off the copy
EffectSingle(st, tbl, p) ==
  IF p.exc # "" THEN p.st ELSE Effect(p.st, tbl, p.ret)

\* _Set.__call__
EffectSet(st, tbl, id) ==
  IF Len(st.heap[id].set) > 1 THEN EffectAll(st, tbl, st.heap[id].set)
  ELSE EffectSingle(st, tbl, CopyPop(st, id))

\* func(member)(df): the unary closure calls member.copy().pop(), which a
\* leaf does not have
EffectCountMember(st, tbl, p) ==
  IF p.exc # "" THEN p.st
  ELSE IF p.st.heap[p.ret].cls \notin SetClasses THEN p.st
  ELSE EffectSingle(p.st, tbl, CopyPop(p.st, p.ret))

\* Count.__call__
EffectCount(st, tbl, id) ==
  IF Len(st.heap[id].set) > 1 THEN EffectAll(st, tbl, st.heap[id].set)
  ELSE EffectCountMember(st, tbl, CopyPop(st, id))

Effect(st, tbl, id) ==
  CASE st.heap[id].cls \in {"Status", "Action"} -> EffectLeaf(st, tbl, st.heap[id])
    [] st.heap[id].cls \in {"All", "Any", "Not"} -> EffectSet(st, tbl, id)
    [] st.heap[id].cls = "Count" -> EffectCount(st, tbl, id)
    [] OTHER -> st

\* the call has returned: the copies it made are gone
Released(st, n) == [st EXCEPT !.heap = SubSeq(@, 1, n)]

\* the objects and registries after id(df)
Evaluated(st, tbl, id) == Released(Effect(st, tbl, id), Len(st.heap))

----------------------------------------------------------------------------
(* The program state and the caller's calls *)

St == [heap |-> heap, reg |-> reg, seed |-> seed]

Sentinel(cls, name) ==
  [cls |-> cls, indicator |-> <<"str", name>>, direction |-> "",
   level |-> <<"str", "">>, ops |-> <<>>]

\* an import in which _NoTime shares the instance slot of _AnyTime: the
\* second sentinel is the first one again
ImportedShared(sd) ==
  [heap |-> <<Sentinel("_AnyTime", "AnyTime"), Sentinel("_AnyTime", "AnyTime")>>,
   reg |-> [Condition |-> <<>>, All |-> <<>>, Any |-> <<>>, Not |-> <<>>,
            _Set |-> <<>>, Indicator |-> <<>>],
   seed |-> sd]

\* the state once the module is imported: AnyTime = _AnyTime() and
\* NoTime = _NoTime() exist, every _collections dictionary is empty
Imported(sd) ==
  [heap |-> <<Sentinel("_AnyTime", "AnyTime"), Sentinel("_NoTime", "NoTime")>>,
   reg |-> [Condition |-> <<>>, All |-> <<>>, Any |-> <<>>, Not |-> <<>>,
            _Set |-> <<>>, Indicator |-> <<>>],
   seed |-> sd]

Tables == [ColumnNames -> SeqOfLen(CellValues, NRows)]

NoCall == [op |-> "", args |-> <<>>, ret |-> 0, exc |-> "", val |-> <<>>, before |-> 0]

\* the caller's view of a finished call
Called(op, args, r) ==
  /\ heap' = r.st.heap
  /\ reg' = r.st.reg
  /\ last' = [op |-> op, args |-> args, ret |-> r.ret, exc |-> r.exc,
              val |-> <<>>, before |-> Len(heap)]
  /\ nops' = nops + 1
  /\ UNCHANGED <<seed, table, frames>>

\* the objects a caller may pass as members
Members == {i \in 1..Len(heap) : IsMember(St, i)}

Indicators == {i \in 1..Len(heap) : heap[i].cls = "Indicator"}

----------------------------------------------------------------------------
(* Leaf construction from the imported state *)

StatusTokens == {"ge", "lt", "xx"}
ActionTokens == {"cross_up", "xx"}

LeafOperands == {<<"str", c>> : c \in ColumnNames} \cup {<<"obj", i>> : i \in Indicators}

LeafLevels == {<<"num", n>> : n \in Levels} \cup {<<"str", c>> : c \in ColumnNames}

InitLeaf ==
  /\ seed = 0
  /\ heap = Imported(seed).heap
  /\ reg = Imported(seed).reg
  /\ table = [c \in ColumnNames |-> [i \in 1..NRows |-> 0]]
  /\ last = NoCall
  /\ nops = 0
  /\ frames = <<>>

NewIndicator(name, shift) ==
  /\ nops < MaxLeafOps
  /\ \E r \in {IndicatorCall(St, name, shift)} : Called("Indicator", <<name, shift>>, r)

NewStatus(indicator, direction, level) ==
  /\ nops < MaxLeafOps
  /\ \E r \in {LeafCall(St, "Status", indicator, direction, level)} :
       Called("Status", <<indicator, direction, level>>, r)

NewAction(indicator, direction, level) ==
  /\ nops < MaxLeafOps
  /\ \E r \in {LeafCall(St, "Action", indicator, direction, level)} :
       Called("Action", <<indicator, direction, level>>, r)

NextLeaf ==
  \/ \E c \in ColumnNames, s \in 0..MaxShift : NewIndicator(c, s)
  \/ \E i \in LeafOperands, d \in StatusTokens, l \in LeafLevels : NewStatus(i, d, l)
  \/ \E i \in LeafOperands, d \in ActionTokens, l \in LeafLevels : NewAction(i, d, l)

SpecLeaf == InitLeaf /\ [][NextLeaf]_vars

----------------------------------------------------------------------------
(* C1: interning of the leaves.  A Status, Action or Indicator call that   *)
(* succeeds returns the instance already built from equal arguments, if    *)
(* there is one: every object that existed before the call and was built   *)
(* from the call's arguments is the object the call returns.               *)

\* the direction token a leaf was constructed with
TokenOf(o) == IF o.cls = "Status" /\ Len(o.ops) > 0 THEN o.ops[1] ELSE o.direction

LevelBuiltFrom(lev, level) ==
  IF level[1] = "num" THEN lev = level
  ELSE IF level[1] = "str"
       THEN /\ lev[1] = "obj"
            /\ heap[lev[2]].cls = "Indicator"
            /\ heap[lev[2]].indicator = level[2]
            /\ heap[lev[2]].shift = 0
  ELSE lev = level

BuiltFrom(o, cls, args) ==
  /\ o.cls = cls
  /\ IF cls = "Indicator"
     THEN o.indicator = args[1] /\ o.shift = args[2]
     ELSE /\ o.indicator = args[1]
          /\ TokenOf(o) = args[2]
          /\ LevelBuiltFrom(o.level, args[3])

C1_LeafInterning ==
  (last.op \in {"Status", "Action", "Indicator"} /\ last.exc = "")
    => \A i \in 1..last.before :
         BuiltFrom(heap[i], last.op, last.args) => last.ret = i

\* a Status call that returned the instance an earlier call had built
C1_Witness ==
  /\ last.op = "Status"
  /\ last.exc = ""
  /\ last.ret <= last.before
  /\ BuiltFrom(heap[last.ret], "Status", last.args)

----------------------------------------------------------------------------
(* Evaluation of the leaves on a table *)

AllStatusTokens == {"lt", "le", "gt", "ge", "eq", "ne"}
AllActionTokens == {"cross_up", "touch_up", "cross_down", "touch_down"}

InitEval ==
  /\ seed = 0
  /\ heap = Imported(seed).heap
  /\ reg = Imported(seed).reg
  /\ table \in Tables
  /\ last = NoCall
  /\ nops = 0
  /\ frames = <<>>

\* expression(df)
Evaluate(id) ==
  /\ \E ev \in {Eval(St, table, id)} :
       last' = [op |-> "call", args |-> <<id>>, ret |-> 0, exc |-> ev.exc,
                val |-> ev.val, before |-> Len(heap)]
  /\ \E r \in {Evaluated(St, table, id)} : heap' = r.heap /\ reg' = r.reg
  /\ UNCHANGED <<seed, table, nops, frames>>

NextEval ==
  \/ \E c \in ColumnNames, s \in 0..MaxShift :
       nops < MaxEvalLeaves /\ NewIndicator(c, s)
  \/ \E i \in LeafOperands, d \in AllStatusTokens, l \in LeafLevels :
       nops < MaxEvalLeaves /\ NewStatus(i, d, l)
  \/ \E i \in LeafOperands, d \in AllActionTokens, l \in LeafLevels :
       nops < MaxEvalLeaves /\ NewAction(i, d, l)
  \/ \E id \in 1..Len(heap) : Evaluate(id)

SpecEval == InitEval /\ [][NextEval]_vars

----------------------------------------------------------------------------
(* C10: Action(J, d, L)(T), J a column and L a constant, is true at row i  *)
(* exactly when a previous row exists and the previous and the current     *)
(* value stand to L as the direction table says: cross_up (<=, >),         *)
(* touch_up (<, >=), cross_down (>=, <), touch_down (>, <=); the first     *)
(* row is false.                                                           *)

DirectionTable(d, prev, curr, level) ==
  CASE d = "cross_up" -> prev <= level /\ curr > level
    [] d = "touch_up" -> prev < level /\ curr >= level
    [] d = "cross_down" -> prev >= level /\ curr < level
    [] d = "touch_down" -> prev > level /\ curr <= level
    [] OTHER -> FALSE

IsColumnAction(id) ==
  /\ heap[id].cls = "Action"
  /\ heap[id].indicator[1] = "str"
  /\ heap[id].level[1] = "num"

C10_ActionDirectionTable ==
  (last.op = "call" /\ IsColumnAction(last.args[1]))
    => LET a == heap[last.args[1]]
           col == table[a.indicator[2]]
       IN /\ last.exc = ""
          /\ last.val = [i \in 1..NRows |->
                           /\ i >= 2
                           /\ DirectionTable(a.direction, col[i - 1], col[i], a.level[2])]

\* an Action was evaluated and a row of it is true
C10_Witness ==
  /\ last.op = "call"
  /\ IsColumnAction(last.args[1])
  /\ \E i \in 1..NRows : last.val[i]

----------------------------------------------------------------------------
(* The algebra.  A behaviour starts where a caller has its leaves in hand, *)
(* as the test block of JQ4LL.py does: ind = Indicator("J"),               *)
(* a = Status("J", "ge", 0), a2 = Status(ind, "ge", 0),                    *)
(* z = Action("J", "cross_up", 0) and nz = Not(z) = ~z.                    *)

WithNot(z) == SetCall(z.st, "Not", <<z.ret>>).st

WithAction(a2) ==
  WithNot(LeafCall(a2.st, "Action", <<"str", "J">>, "cross_up", <<"num", 0>>))

WithTwin(ind, a) ==
  WithAction(LeafCall(a.st, "Status", <<"obj", ind>>, "ge", <<"num", 0>>))

WithStatus(ind) ==
  WithTwin(ind.ret, LeafCall(ind.st, "Status", <<"str", "J">>, "ge", <<"num", 0>>))

Prepared(sd) == WithStatus(IndicatorCall(Imported(sd), "J", 0))

Init ==
  /\ seed \in HashSeeds
  /\ \E p \in {Prepared(seed)} : heap = p.heap /\ reg = p.reg
  /\ table = [c \in ColumnNames |-> [i \in 1..NRows |-> 0]]
  /\ last = NoCall
  /\ nops = 0
  /\ frames = <<>>

\* what a caller passes to the variadic constructors
Predicates == {i \in Members : heap[i].cls \notin {"_AnyTime", "_NoTime"}}

CallAll(args) ==
  /\ nops < MaxOps
  /\ \E r \in {SetCall(St, "All", args)} : Called("All", args, r)

CallAny(args) ==
  /\ nops < MaxOps
  /\ \E r \in {SetCall(St, "Any", args)} : Called("Any", args, r)

CallNot(args) ==
  /\ nops < MaxOps
  /\ \E r \in {SetCall(St, "Not", args)} : Called("Not", args, r)

CallCount(args) ==
  /\ nops < MaxOps
  /\ \E r \in {SetCall(St, "Count", args)} : Called("Count", args, r)

\* x & y
And(x, y) ==
  /\ nops < MaxOps
  /\ \E r \in {SetCall(St, "All", <<x, y>>)} : Called("and", <<x, y>>, r)

\* x | y
Or(x, y) ==
  /\ nops < MaxOps
  /\ \E r \in {SetCall(St, "Any", <<x, y>>)} : Called("or", <<x, y>>, r)

\* ~x
Invert(x) ==
  /\ nops < MaxOps
  /\ \E r \in {SetCall(St, "Not", <<x>>)} : Called("invert", <<x>>, r)

Next ==
  \/ \E args \in SeqsUpTo(Predicates, MaxArgs) : CallAll(args)
  \/ \E args \in SeqsUpTo(Predicates, MaxArgs) : CallAny(args)
  \/ \E args \in SeqsUpTo(Predicates, MaxArgs) : CallNot(args)
  \/ \E args \in SeqsUpTo(Predicates, MaxArgs) : CallCount(args)
  \/ \E x \in Members, y \in Members : And(x, y)
  \/ \E x \in Members, y \in Members : Or(x, y)
  \/ \E x \in Members : Invert(x)

Spec == Init /\ [][Next]_vars

----------------------------------------------------------------------------
(* What the claims about the algebra speak of *)

IsLeaf(id) == heap[id].cls \in {"Status", "Action"}

\* a Not that holds the leaf it was built from
IsNegation(id) ==
  /\ heap[id].cls = "Not"
  /\ Len(heap[id].set) = 1
  /\ IsLeaf(heap[id].set[1])

Reorderings(s) ==
  {[i \in 1..Len(s) |-> s[p[i]]] :
     p \in {q \in [1..Len(s) -> 1..Len(s)] : \A i, j \in 1..Len(s) : q[i] = q[j] => i = j}}

\* the expression evaluates on every table
Evaluates(id) == \A tbl \in Tables : Eval(St, tbl, id).exc = ""

Rowwise(op, u, v) ==
  [i \in 1..NRows |-> IF op \in {"All", "and"} THEN u[i] /\ v[i] ELSE u[i] \/ v[i]]

(* C2: order independence.  When All or Any was called with leaf           *)
(* predicates and negations, the call returned an instance, and the same   *)
(* call with the members in any other order returns that very instance.    *)
C2_OrderIndependence ==
  (/\ last.op \in {"All", "Any"}
   /\ \A i \in 1..Len(last.args) : IsLeaf(last.args[i]) \/ IsNegation(last.args[i]))
    => /\ last.exc = ""
       /\ \A perm \in Reorderings(last.args) :
            /\ SetCall(St, last.op, perm).exc = ""
            /\ SetCall(St, last.op, perm).ret = last.ret

(* C3: All(p, q) evaluates row-wise to p(T) AND q(T) and Any(p, q) to      *)
(* p(T) OR q(T), for p and q leaf predicates, negations or nested          *)
(* combinators and every table T.  (Stated for distinct p and q; p = q is  *)
(* the case of C8.)                                                        *)
C3_EvaluatesAndOr ==
  (/\ last.op \in {"All", "Any", "and", "or"}
   /\ Len(last.args) = 2
   /\ last.args[1] # last.args[2]
   /\ \A i \in 1..2 : last.args[i] \in Predicates /\ Evaluates(last.args[i]))
    => /\ last.exc = ""
       /\ \A tbl \in Tables :
            Eval(St, tbl, last.ret)
              = Ev(Rowwise(last.op, Eval(St, tbl, last.args[1]).val,
                           Eval(St, tbl, last.args[2]).val), "")

(* C4: Not(p), or ~p, evaluates row-wise to the negation of p(T), for p a  *)
(* leaf predicate or an All/Any combinator and every table T.              *)
C4_NegationIsNot ==
  (/\ last.op \in {"Not", "invert"}
   /\ Len(last.args) = 1
   /\ heap[last.args[1]].cls \in {"Status", "Action", "All", "Any"}
   /\ Evaluates(last.args[1]))
    => /\ last.exc = ""
       /\ \A tbl \in Tables :
            Eval(St, tbl, last.ret)
              = Ev([i \in 1..NRows |-> ~Eval(St, tbl, last.args[1]).val[i]], "")

(* C5: absorption.  All(x, Any(x, y)), x and y distinct leaf predicates,   *)
(* returns x itself.                                                       *)
C5_Absorption ==
  (/\ last.op \in {"All", "and"}
   /\ Len(last.args) = 2
   /\ IsLeaf(last.args[1])
   /\ heap[last.args[2]].cls = "Any"
   /\ Len(heap[last.args[2]].set) = 2
   /\ last.args[1] \in Range(heap[last.args[2]].set)
   /\ \A m \in Range(heap[last.args[2]].set) : IsLeaf(m))
    => last.exc = "" /\ last.ret = last.args[1]

(* C6: an All whose members include some p and Not(p) is NoTime, an Any    *)
(* whose members include some p and Not(p) is AnyTime, whatever the other  *)
(* members are.                                                            *)
C6_ContradictionCollapses ==
  (/\ last.op \in {"All", "Any", "and", "or"}
   /\ \A i \in 1..Len(last.args) : last.args[i] \in Predicates
   /\ \E i, j \in 1..Len(last.args) :
        /\ IsNegation(last.args[j])
        /\ heap[last.args[j]].set[1] = last.args[i])
    => /\ last.exc = ""
       /\ last.ret = IF last.op \in {"All", "and"} THEN NoTime ELSE AnyTime

(* C7: double negation.  Not(n), n being the Not built from a leaf         *)
(* predicate x, returns x, whatever was constructed before.                *)
C7_DoubleNegation ==
  (/\ last.op \in {"Not", "invert"}
   /\ Len(last.args) = 1
   /\ heap[last.args[1]].cls = "Not"
   /\ IsLeaf(heap[last.args[1]].hash[3][1]))
    => last.exc = "" /\ last.ret = heap[last.args[1]].hash[3][1]

(* C8: idempotence.  All(x, x) and Any(x, x) return x itself, for x a leaf *)
(* predicate, a Not, an All or an Any.                                     *)
C8_Idempotence ==
  (/\ last.op \in {"All", "Any", "and", "or"}
   /\ Len(last.args) = 2
   /\ last.args[1] = last.args[2]
   /\ last.args[1] \in Predicates)
    => last.exc = "" /\ last.ret = last.args[1]

(* C9: All() & y returns y itself, for every leaf predicate y.             *)
C9_AnyTimeIsIdentity ==
  (/\ last.op = "and"
   /\ last.args[1] = SetCall(St, "All", <<>>).ret
   /\ IsLeaf(last.args[2]))
    => last.exc = "" /\ last.ret = last.args[2]

\* the 0/1 value of a row of an evaluation: a Count yields numbers, every
\* other expression booleans
RowCount(id, ev, i) ==
  IF heap[id].cls = "Count" THEN ev.val[i]
  ELSE IF ev.val[i] THEN 1 ELSE 0

(* C11: a Count built from n >= 1 distinct members evaluates, on every     *)
(* table and at every row, to the number of those members that are true    *)
(* at the row.                                                             *)
C11_CountIsSum ==
  (/\ last.op = "Count"
   /\ Len(last.args) >= 1
   /\ \A i, j \in 1..Len(last.args) : last.args[i] = last.args[j] => i = j
   /\ \A i \in 1..Len(last.args) :
        last.args[i] \in Predicates /\ Evaluates(last.args[i]))
    => /\ last.exc = ""
       /\ \A tbl \in Tables :
            /\ Eval(St, tbl, last.ret).exc = ""
            /\ \A i \in 1..NRows :
                 RowCount(last.ret, Eval(St, tbl, last.ret), i)
                   = Cardinality({k \in 1..Len(last.args) :
                                   Eval(St, tbl, last.args[k]).val[i]})

----------------------------------------------------------------------------
(* Evaluation of Status on tables that may hold a second column, K, which  *)
(* a level may name                                                        *)

LevelColumns == {"J", "K"}

\* J is always there, K may be absent
WideTables ==
  Tables \cup {t @@ [c \in {"K"} |-> k] : t \in Tables, k \in SeqOfLen(Levels, NRows)}

StatusLevels == {<<"num", n>> : n \in Levels} \cup {<<"str", c>> : c \in LevelColumns}

InitStatus ==
  /\ seed = 0
  /\ heap = Imported(seed).heap
  /\ reg = Imported(seed).reg
  /\ table \in WideTables
  /\ last = NoCall
  /\ nops = 0
  /\ frames = <<>>

NextStatus ==
  \/ \E c \in ColumnNames, d \in AllStatusTokens, l \in StatusLevels :
       nops < MaxEvalLeaves /\ NewStatus(<<"str", c>>, d, l)
  \/ \E id \in 1..Len(heap) : Evaluate(id)

SpecStatus == InitStatus /\ [][NextStatus]_vars

\* a Status of a column against a constant or against a column of the table
IsColumnStatus(id) ==
  /\ heap[id].cls = "Status"
  /\ heap[id].indicator[1] = "str"
  /\ \/ heap[id].level[1] = "num"
     \/ /\ heap[id].level[1] = "obj"
        /\ heap[heap[id].level[2]].cls = "Indicator"
        /\ heap[heap[id].level[2]].shift = 0
        /\ heap[heap[id].level[2]].indicator \in DOMAIN table

\* the level of row i
LevelAt(lev, i) ==
  IF lev[1] = "num" THEN lev[2] ELSE table[heap[lev[2]].indicator][i]

Holds(op, x, y) ==
  CASE op = "lt" -> x < y [] op = "le" -> x <= y [] op = "gt" -> x > y
    [] op = "ge" -> x >= y [] op = "eq" -> x = y [] op = "ne" -> x # y
    [] OTHER -> FALSE

(* C12: Status(J, op, level)(T), J a column and level a constant or a      *)
(* column, is true at row i exactly when J[i] op level[i] holds.           *)
C12_StatusPointwise ==
  (last.op = "call" /\ IsColumnStatus(last.args[1]))
    => /\ last.exc = ""
       /\ last.val = [i \in 1..NRows |->
                        Holds(TokenOf(heap[last.args[1]]),
                              table[heap[last.args[1]].indicator[2]][i],
                              LevelAt(heap[last.args[1]].level, i))]

\* a Status against the column K was evaluated, true at one row and false
\* at another
C12_Witness ==
  /\ last.op = "call"
  /\ IsColumnStatus(last.args[1])
  /\ heap[last.args[1]].level[1] = "obj"
  /\ heap[heap[last.args[1]].level[2]].indicator = "K"
  /\ \E i, j \in 1..NRows : last.val[i] /\ ~last.val[j]

----------------------------------------------------------------------------
(* Interval: the comparisons of an Interval with a number.  An Interval is *)
(* [left, right, closed], closed being "left", "right", "both" or          *)
(* "neither".                                                              *)

MaxBound == 2      \* interval bounds are 0..MaxBound, scalars -1..MaxBound + 1

Closures == {"left", "right", "both", "neither"}

closed_left(iv) == iv.closed \in {"left", "both"}

closed_right(iv) == iv.closed \in {"right", "both"}

Intervals ==
  {[left |-> l, right |-> r, closed |-> c] :
     l \in 0..MaxBound, r \in 0..MaxBound, c \in Closures}

Scalars == -1..(MaxBound + 1)

\* an interval below a number only when the number is beyond its left bound
IntervalLtLeft(iv, other) ==
  IF closed_right(iv) THEN other > iv.left ELSE other >= iv.left

\* Interval.__lt__(self, other), other an int or a float
IntervalLt(iv, other) ==
  IF closed_right(iv) THEN other > iv.right ELSE other >= iv.right

\* Interval.__le__
IntervalLe(iv, other) == other >= iv.right

\* Interval.__gt__
IntervalGt(iv, other) ==
  IF closed_left(iv) THEN other < iv.left ELSE other <= iv.left

\* Interval.__ge__
IntervalGe(iv, other) == other <= iv.left

\* s op iv: int and float return NotImplemented for an Interval operand and
\* Python calls the reflected method of the Interval
ScalarCompare(op, sc, iv) ==
  CASE op = "gt" -> IntervalLt(iv, sc)
    [] op = "ge" -> IntervalLe(iv, sc)
    [] op = "lt" -> IntervalGt(iv, sc)
    [] OTHER -> IntervalGe(iv, sc)

InitInterval ==
  /\ seed = 0
  /\ heap = Imported(seed).heap
  /\ reg = Imported(seed).reg
  /\ table = [c \in ColumnNames |-> [i \in 1..NRows |-> 0]]
  /\ last = NoCall
  /\ nops = 0
  /\ frames = <<>>

\* the caller evaluates sc op iv
Compare(op, sc, iv) ==
  /\ last' = [op |-> op, args |-> <<sc, iv>>, ret |-> 0, exc |-> "",
              val |-> <<ScalarCompare(op, sc, iv)>>, before |-> Len(heap)]
  /\ UNCHANGED <<heap, reg, seed, table, nops, frames>>

NextInterval ==
  \E op \in {"gt", "ge", "lt", "le"}, sc \in Scalars, iv \in Intervals :
    iv.left <= iv.right /\ Compare(op, sc, iv)

SpecInterval == InitInterval /\ [][NextInterval]_vars

(* C13: for an Interval I with left <= right and a number s: s > I iff     *)
(* s > right when I is closed on the right and s >= right when it is open  *)
(* there; s >= I iff s >= right; s < I iff s < left when I is closed on    *)
(* the left and s <= left when it is open there; s <= I iff s <= left.     *)
C13_IntervalBoundaryCrossing ==
  (last.op \in {"gt", "ge", "lt", "le"} /\ Len(last.val) = 1)
    => last.val[1] =
         CASE last.op = "gt" ->
                IF last.args[2].closed \in {"right", "both"}
                THEN last.args[1] > last.args[2].right
                ELSE last.args[1] >= last.args[2].right
           [] last.op = "ge" -> last.args[1] >= last.args[2].right
           [] last.op = "lt" ->
                IF last.args[2].closed \in {"left", "both"}
                THEN last.args[1] < last.args[2].left
                ELSE last.args[1] <= last.args[2].left
           [] OTHER -> last.args[1] <= last.args[2].left

\* a number on the open right bound of an interval that has an interior is
\* above the interval
C13_Witness ==
  /\ last.op = "gt"
  /\ Len(last.val) = 1
  /\ last.args[2].closed = "left"
  /\ last.args[2].left < last.args[2].right
  /\ last.args[1] = last.args[2].right
  /\ last.val[1]

----------------------------------------------------------------------------
Leaves == {i \in 1..Len(heap) : IsLeaf(i)}

\* cls(X, c) followed by cls(a, b, c): both return, and the same instance
SameAsFlat(cls, r1, ab, c) ==
  /\ r1.exc = ""
  /\ SetCall(r1.st, cls, ab \o <<c>>).exc = ""
  /\ SetCall(r1.st, cls, ab \o <<c>>).ret = r1.ret

\* Y = Any(a, b) followed by Any(X, X, Y)
AbsorbsSubset(X, rY) ==
  /\ rY.exc = ""
  /\ SetCall(rY.st, "Any", <<X, X, rY.ret>>).exc = ""
  /\ SetCall(rY.st, "Any", <<X, X, rY.ret>>).ret = X

(* C14: flattening.  Once X = All(a, b) is built from two leaf predicates, *)
(* All(X, c) is the instance All(a, b, c) returns for every leaf c, and is *)
(* X itself when c is a or b; likewise for Any; and Any(X, X, Y) is X when *)
(* Y is an Any of members of the Any X.                                    *)
C14_Flattening ==
  (/\ last.op \in {"All", "Any"}
   /\ last.exc = ""
   /\ Len(last.args) \in {2, 3}
   /\ \A i, j \in 1..Len(last.args) : last.args[i] = last.args[j] => i = j
   /\ \A i \in 1..Len(last.args) : IsLeaf(last.args[i]))
    => /\ heap[last.ret].cls = last.op
       /\ Len(last.args) = 2 =>
            \A c \in Leaves :
              IF c \in Range(last.args)
              THEN /\ SetCall(St, last.op, <<last.ret, c>>).exc = ""
                   /\ SetCall(St, last.op, <<last.ret, c>>).ret = last.ret
              ELSE SameAsFlat(last.op, SetCall(St, last.op, <<last.ret, c>>),
                              last.args, c)
       /\ (last.op = "Any" /\ Len(last.args) = 3) =>
            \A a, b \in Range(last.args) :
              a # b => AbsorbsSubset(last.ret, SetCall(St, "Any", <<a, b>>))

----------------------------------------------------------------------------
(* Construction from the imported state: leaves, then combinators of them  *)

NextBuild ==
  \/ \E c \in ColumnNames, sh \in 0..MaxShift : NewIndicator(c, sh)
  \/ \E i \in LeafOperands, d \in StatusTokens, l \in LeafLevels : NewStatus(i, d, l)
  \/ \E i \in LeafOperands, d \in ActionTokens, l \in LeafLevels : NewAction(i, d, l)
  \/ \E args \in SeqsUpTo(Predicates, MaxArgs) : CallAll(args)
  \/ \E args \in SeqsUpTo(Predicates, MaxArgs) : CallAny(args)
  \/ \E args \in SeqsUpTo(Predicates, MaxArgs) : CallNot(args)

SpecBuild == InitLeaf /\ [][NextBuild]_vars

EmptyCallReturns ==
  /\ AnyTime # NoTime
  /\ heap[AnyTime].cls = "_AnyTime"
  /\ heap[NoTime].cls = "_NoTime"
  /\ (last.op \in {"All", "Any", "Not"} /\ last.args = <<>>)
       => CASE last.op = "All" -> last.exc = "" /\ last.ret = AnyTime
            [] last.op = "Any" -> last.exc = "" /\ last.ret = NoTime
            [] OTHER -> last.exc # "" /\ last.ret = 0

EmptyNotAddsNothing ==
  (last'.op = "Not" /\ last'.args = <<>>) => (heap' = heap /\ reg' = reg)

(* C15: All() returns AnyTime, Any() returns NoTime, Not() fails and adds  *)
(* nothing to a registry; AnyTime and NoTime are two distinct singletons.  *)
C15_EmptyCombinators == []EmptyCallReturns /\ [][EmptyNotAddsNothing]_vars

\* Not() failed after an object had been built
C15_Witness ==
  /\ last.op = "Not"
  /\ last.args = <<>>
  /\ last.exc = "ValueError"
  /\ last.before > 2

----------------------------------------------------------------------------
(* Arithmetic on indicators: a + other and a - other build an              *)
(* IndicatorAddSub through Indicator.__new__                               *)

\* an object used as the first item of a registry key, told apart from
\* every column name
RefName(id) == "#" \o ToString(id)

\* Indicator.__new__(cls, self_, operator, other): key = args[0], 0
AddSubNew(st, a) ==
  IF InRegistry(st.reg.Indicator, <<RefName(a), 0>>)
  THEN Result(st.reg.Indicator[<<RefName(a), 0>>], "", st)
  ELSE Result(Len(st.heap) + 1, "",
              [st EXCEPT !.heap = Append(@, [cls |-> "IndicatorAddSub",
                                             indicator |-> RefName(a),
                                             shift |-> 0,
                                             self_ |-> 0,
                                             operator |-> "",
                                             type |-> "",
                                             other |-> <<"none", 0>>]),
                         !.reg.Indicator = Store(@, <<RefName(a), 0>>, Len(st.heap) + 1)])

AddSubType(st, other) ==
  IF other[1] = "obj" /\ st.heap[other[2]].cls \in {"Indicator", "IndicatorAddSub"}
  THEN "I"
  ELSE IF other[1] = "num" THEN "N" ELSE "O"

\* IndicatorAddSub.__init__(self, self_, operator, other)
AddSubInit(st, id, a, operator, other) ==
  IF operator \notin {"add", "sub"}
  THEN Result(0, "ValueError", [st EXCEPT !.heap[id].self_ = a])
  ELSE Result(id, "", [st EXCEPT !.heap[id].self_ = a,
                                 !.heap[id].operator = operator,
                                 !.heap[id].type = AddSubType(st, other),
                                 !.heap[id].other = other])

\* IndicatorAddSub(self_, operator, other): __new__, then __init__
AddSubCall(new, a, operator, other) ==
  AddSubInit(new.st, new.ret, a, operator, other)

\* a + other, a - other (_count_add_sub), or a direct call with any operator
AddSub(a, operator, other) ==
  /\ nops < MaxLeafOps
  /\ \E r \in {AddSubCall(AddSubNew(St, a), a, operator, other)} :
       Called("AddSub", <<a, operator, other>>, r)

Operators == {"add", "sub", "mul"}

\* the left operands: the indicators and the arithmetic nodes
Arithmetics == {i \in 1..Len(heap) : heap[i].cls \in {"Indicator", "IndicatorAddSub"}}

AddSubOthers == {<<"num", n>> : n \in Levels} \cup {<<"obj", i>> : i \in Arithmetics}

\* j = Indicator('J') is in hand
InitArith ==
  /\ seed = 0
  /\ heap = IndicatorCall(Imported(seed), "J", 0).st.heap
  /\ reg = IndicatorCall(Imported(seed), "J", 0).st.reg
  /\ table \in Tables
  /\ last = NoCall
  /\ nops = 0
  /\ frames = <<>>

NextArith ==
  \/ \E c \in ColumnNames, sh \in 0..MaxShift : NewIndicator(c, sh)
  \/ \E a \in Arithmetics, op \in Operators, other \in AddSubOthers :
       AddSub(a, op, other)
  \/ \E id \in 1..Len(heap) : Evaluate(id)

SpecArith == InitArith /\ [][NextArith]_vars

Unchanged(i) == heap'[i] = heap[i]

(* C16: expressions are immutable.  No call changes an object that existed *)
(* before it: an arithmetic node built as a - b keeps its operator and its *)
(* right operand when a + c or a - d is built later.                       *)
C16_Immutable == [][\A i \in 1..Len(heap) : Unchanged(i)]_vars

----------------------------------------------------------------------------
(* C17: in every reachable state every Not wraps exactly one member, and   *)
(* the member is not itself a Not.                                         *)
C17_NotWrapsOne ==
  \A i \in 1..Len(heap) :
    heap[i].cls = "Not"
      => /\ Len(heap[i].set) = 1
         /\ heap[heap[i].set[1]].cls # "Not"

(* C18: in every reachable state every All and every Any holds at least    *)
(* two distinct members.                                                   *)
C18_AtLeastTwoMembers ==
  \A i \in 1..Len(heap) :
    heap[i].cls \in {"All", "Any"}
      => \E j, k \in 1..Len(heap[i].set) : heap[i].set[j] # heap[i].set[k]

(* C19: a Status or Action call that raised left no registry entry under   *)
(* the key of its arguments.                                               *)
C19_FailedLeavesNoEntry ==
  (last.op \in {"Status", "Action"} /\ last.exc # "")
    => \A k \in DOMAIN reg.Condition :
         ~ /\ k[1] = last.op
           /\ k[2] = last.args[1]
           /\ k[3] = last.args[2]
           /\ LevelBuiltFrom(k[4], last.args[3])

----------------------------------------------------------------------------
(* Evaluation of what the algebra has built, on tables with and without    *)
(* the column the leaves refer to.                                         *)

\* J at the level throughout, J crossing the level at every row, no J
ReadTables ==
  {[c \in ColumnNames |-> [i \in 1..NRows |-> 0]],
   [c \in ColumnNames |-> [i \in 1..NRows |-> (i % 2) * 2 - 1]],
   [c \in {"K"} |-> [i \in 1..NRows |-> 0]]}

InitRead ==
  /\ seed \in HashSeeds
  /\ \E p \in {Prepared(seed)} : heap = p.heap /\ reg = p.reg
  /\ table \in ReadTables
  /\ last = NoCall
  /\ nops = 0
  /\ frames = <<>>

\* Count(x) / Count(x, y)
CountOf(args) ==
  /\ nops < MaxEvalLeaves
  /\ \E r \in {SetCall(St, "Count", args)} : Called("Count", args, r)

NextRead ==
  \/ \E x \in Members, y \in Members : nops < MaxEvalLeaves /\ And(x, y)
  \/ \E x \in Members, y \in Members : nops < MaxEvalLeaves /\ Or(x, y)
  \/ \E x \in Members : nops < MaxEvalLeaves /\ Invert(x)
  \/ \E x \in Predicates : CountOf(<<x>>)
  \/ \E x \in Predicates, y \in Predicates : CountOf(<<x, y>>)
  \/ \E id \in 1..Len(heap) : Evaluate(id)

SpecRead == InitRead /\ [][NextRead]_vars

\* the call just made, made again, gives what it gave
Repeatable ==
  last.op = "call" => Eval(St, table, last.args[1]) = Ev(last.val, last.exc)

\* a call of an expression changes no object and no registry
EvaluationKeeps == last'.op = "call" => heap' = heap /\ reg' = reg

(* C20: evaluation is read-only.  A call of an expression on a table,      *)
(* whether it returns or raises, leaves every object (member sets and      *)
(* operands) and every registry as they were, and the same call made       *)
(* again on the same table gives the same result.                          *)
C20_EvaluationReadOnly == []Repeatable /\ [][EvaluationKeeps]_vars

\* a Not was evaluated on a table that lacks its member's column: the call
\* raised KeyError after it had read the member off a copy of the set
C20_Witness ==
  /\ last.op = "call"
  /\ heap[last.args[1]].cls = "Not"
  /\ Len(heap[last.args[1]].set) = 1
  /\ "J" \notin DOMAIN table
  /\ last.exc = "KeyError"

----------------------------------------------------------------------------
(* Concurrent callers.  Each caller makes one call Status(indicator,       *)
(* direction, level) with a numeric level; the interpreter may switch to   *)
(* another caller between any two statements of Condition.__new__ and      *)
(* Status.__init__, and the code takes no lock.  A frame holds the call's  *)
(* arguments, the position in the code, the local self and what __new__    *)
(* returned.                                                               *)

NCallers == 2

Callers == 1..NCallers

Idle == [pc |-> "idle", args |-> <<>>, self |-> 0, ret |-> 0]

\* an attribute not assigned yet
Unset == <<"unset", 0>>
UnsetName == <<"unset", "">>

\* hash_ = cls.__name__, indicator, direction, level
Hash(f) == <<"Status", f.args[1], f.args[2], f.args[3]>>

InitThreads ==
  /\ seed = 0
  /\ heap = Imported(seed).heap
  /\ reg = Imported(seed).reg
  /\ table = [c \in ColumnNames |-> [i \in 1..NRows |-> 0]]
  /\ last = NoCall
  /\ nops = 0
  /\ frames = [t \in Callers |-> Idle]

\* the caller calls Status(indicator, direction, level)
Enter(t, indicator, direction, level) ==
  /\ frames[t].pc = "idle"
  /\ frames' = [frames EXCEPT ![t] = [pc |-> "check", self |-> 0, ret |-> 0,
                                      args |-> <<indicator, direction, level>>]]
  /\ nops' = nops + 1
  /\ UNCHANGED <<heap, reg, seed, table, last>>

\* if hash_ not in cls._collections:
Check(t) ==
  /\ frames[t].pc = "check"
  /\ frames' = [frames EXCEPT ![t].pc =
                  IF InRegistry(reg.Condition, Hash(frames[t]))
                  THEN "return" ELSE "new"]
  /\ UNCHANGED <<heap, reg, seed, table, last, nops>>

\* self = super().__new__(cls)
Allocate(t) ==
  /\ frames[t].pc = "new"
  /\ heap' = Append(heap, [cls |-> "Status", indicator |-> UnsetName,
                           direction |-> "unset", level |-> Unset, ops |-> <<>>])
  /\ frames' = [frames EXCEPT ![t].pc = "store", ![t].self = Len(heap) + 1]
  /\ UNCHANGED <<reg, seed, table, last, nops>>

\* cls._collections[hash_] = self
Publish(t) ==
  /\ frames[t].pc = "store"
  /\ reg' = [reg EXCEPT !.Condition = Store(@, Hash(frames[t]), frames[t].self)]
  /\ frames' = [frames EXCEPT ![t].pc = "fields"]
  /\ UNCHANGED <<heap, seed, table, last, nops>>

\* self._indicator = indicator; self._direction = direction;
\* self._level = level
SetFields(t) ==
  /\ frames[t].pc = "fields"
  /\ heap' = [heap EXCEPT ![frames[t].self].indicator = frames[t].args[1],
                          ![frames[t].self].direction = frames[t].args[2],
                          ![frames[t].self].level = frames[t].args[3]]
  /\ frames' = [frames EXCEPT ![t].pc = "return"]
  /\ UNCHANGED <<reg, seed, table, last, nops>>

\* return cls._collections[hash_]
Return(t) ==
  /\ frames[t].pc = "return"
  /\ frames' = [frames EXCEPT ![t].pc = "init",
                              ![t].ret = reg.Condition[Hash(frames[t])]]
  /\ UNCHANGED <<heap, reg, seed, table, last, nops>>

\* Status.__init__ on what __new__ returned; the call is over and the
\* caller has the instance
Initialize(t) ==
  /\ frames[t].pc = "init"
  /\ \E r \in {StatusInit(St, frames[t].ret, frames[t].args[2])} :
       /\ heap' = r.st.heap
       /\ last' = [op |-> "Status", args |-> frames[t].args, ret |-> r.ret,
                   exc |-> r.exc, val |-> <<>>, before |-> Len(heap)]
  /\ frames' = [frames EXCEPT ![t].pc = "done"]
  /\ UNCHANGED <<reg, seed, table, nops>>

NextThreads ==
  \/ \E t \in Callers, c \in ColumnNames, d \in {"ge", "lt"}, n \in Levels :
       Enter(t, <<"str", c>>, d, <<"num", n>>)
  \/ \E t \in Callers : Check(t)
  \/ \E t \in Callers : Allocate(t)
  \/ \E t \in Callers : Publish(t)
  \/ \E t \in Callers : SetFields(t)
  \/ \E t \in Callers : Return(t)
  \/ \E t \in Callers : Initialize(t)

SpecThreads == InitThreads /\ [][NextThreads]_vars

\* the caller's call has returned
Received(t) == frames[t].pc = "done"

\* every attribute Condition.__new__ assigns has been assigned
FieldsSet(id) ==
  /\ heap[id].indicator # UnsetName
  /\ heap[id].direction # "unset"
  /\ heap[id].level # Unset

(* C21: construction is serialized.  Callers whose calls with equal        *)
(* arguments have returned hold the same instance, and an instance a       *)
(* caller holds has every field set.                                       *)
C21_SerializedConstruction ==
  \A t \in Callers :
    Received(t)
      => /\ FieldsSet(frames[t].ret)
         /\ \A u \in Callers :
              (Received(u) /\ frames[u].args = frames[t].args)
                => frames[u].ret = frames[t].ret

====
